---- MODULE Spec2Model ----
(***************************************************************************)
(* Model of the training editor of runner-training-calculator:             *)
(* the time utilities (parseTime, formatTime, addMinutes), calculateEP,    *)
(* the recalculation pass recalculateSegments and the editor's handlers    *)
(* (updateSegment, handleEndTimeChange, setStartTime, addRow,              *)
(* duplicateRow, deleteRow).                                               *)
(*                                                                         *)
(* Numbers.  A JavaScript number is modelled as an exact value <<n, d>>:   *)
(* a normalised fraction n/d with d > 0, or <<1,0>> (Infinity),            *)
(* <<-1,0>> (-Infinity), <<0,0>> (NaN).  Spec, SpecRecalc and SpecClock    *)
(* compute on these exact values; SpecDouble runs the recalculation on     *)
(* IEEE-754 doubles, with the rounding of every operation.                 *)
(*                                                                         *)
(* Clock strings.  A string produced by formatTime or by a time input is   *)
(* [k |-> "hm", h, m], standing for the text of h, ":" and the text of m   *)
(* (each padded to two characters); the text is determined by the two      *)
(* integers.  [k |-> "empty"] is "" (a cleared time input) and             *)
(* [k |-> "nan"] is "NaN:NaN".                                             *)
(*                                                                         *)
(* Indices.  Row `index` of the source is position index + 1 of the        *)
(* sequence `segments`; lastOp.index is the index of the source.           *)
(***************************************************************************)
EXTENDS Integers, Sequences, FiniteSets, TLC

\* startTime, segments: the editor's state; nextId: the ids handed out so far;
\* nOps: the number of handler calls so far; lastOp: the last handler call
\* (its name, row index, field and argument, and the length of the list and
\* the mode of the row before the call)
VARIABLES startTime, segments, nextId, nOps, lastOp

vars == <<startTime, segments, nextId, nOps, lastOp>>

(***************************************************************************)
(* Bounds                                                                  *)
(***************************************************************************)
\* longest segment list the editor model grows to
MaxSegs == 3
\* number of handler invocations explored from a new session
MaxOps == 3
\* longest segment list handed to the recalculation in SpecRecalc
MaxRecalcLen == 2
\* number of successive recalculation passes in SpecRecalc
MaxPasses == 2
\* largest whole number of minutes handed to addMinutes and formatTime in
\* SpecClock
MaxMinutes == 1500
\* largest number of legs after the start row in SpecDouble
MaxDoubleLen == 2

(***************************************************************************)
(* JavaScript numbers                                                      *)
(***************************************************************************)
Abs(x) == IF x < 0 THEN -x ELSE x

RECURSIVE GCD(_, _)
GCD(a, b) == IF b = 0 THEN a ELSE GCD(b, a % b)

NaN == <<0, 0>>
PosInf == <<1, 0>>
NegInf == <<-1, 0>>

Sign(x) == IF x > 0 THEN 1 ELSE IF x < 0 THEN -1 ELSE 0

\* the number n/d (d may be 0 or negative)
R(n, d) ==
  IF d = 0 THEN <<Sign(n), 0>>
  ELSE LET g == GCD(Abs(n), Abs(d))
           s == IF d < 0 THEN -1 ELSE 1
       IN  <<(s * n) \div g, (s * d) \div g>>

Num(n) == <<n, 1>>
Zero == <<0, 1>>

IsNaN(x) == x = NaN
IsFinite(x) == x[2] > 0
IsInteger(x) == x[2] = 1

\* x + y
Plus(x, y) ==
  IF IsNaN(x) \/ IsNaN(y) THEN NaN
  ELSE IF ~IsFinite(x) /\ ~IsFinite(y) THEN (IF x = y THEN x ELSE NaN)
  ELSE IF ~IsFinite(x) THEN x
  ELSE IF ~IsFinite(y) THEN y
  ELSE R(x[1] * y[2] + y[1] * x[2], x[2] * y[2])

Neg(x) == <<-x[1], x[2]>>

\* x - y
Minus(x, y) == Plus(x, Neg(y))

\* x * y
Times(x, y) ==
  IF IsNaN(x) \/ IsNaN(y) THEN NaN
  ELSE IF ~IsFinite(x) \/ ~IsFinite(y)
       THEN <<Sign(x[1]) * Sign(y[1]), 0>>
  ELSE R(x[1] * y[1], x[2] * y[2])

\* x / y
Div(x, y) ==
  IF IsNaN(x) \/ IsNaN(y) THEN NaN
  ELSE IF ~IsFinite(y) THEN (IF IsFinite(x) THEN Zero ELSE NaN)
  ELSE IF ~IsFinite(x) THEN (IF y[1] < 0 THEN Neg(x) ELSE x)
  ELSE R(x[1] * y[2], x[2] * y[1])

\* x < y (false when either side is NaN)
Lt(x, y) ==
  IF IsNaN(x) \/ IsNaN(y) THEN FALSE
  ELSE IF ~IsFinite(x) \/ ~IsFinite(y)
       THEN (x # y) /\ (x = NegInf \/ y = PosInf)
  ELSE x[1] * y[2] < y[1] * x[2]

Gt(x, y) == Lt(y, x)
\* x <= y (false when either side is NaN)
Le(x, y) == Lt(x, y) \/ (~IsNaN(x) /\ x = y)
Ge(x, y) == Le(y, x)

\* Math.round: the nearest integer, halves rounded up
MathRound(x) ==
  IF ~IsFinite(x) THEN x ELSE Num((2 * x[1] + x[2]) \div (2 * x[2]))

\* a % b of JavaScript on integers, b > 0: the result has the sign of a
JsRem(a, b) == IF a >= 0 THEN a % b ELSE -((-a) % b)

(***************************************************************************)
(* Clock strings                                                           *)
(***************************************************************************)
T(h, m) == [k |-> "hm", h |-> h, m |-> m]
EmptyStr == [k |-> "empty", h |-> 0, m |-> 0]
NaNStr == [k |-> "nan", h |-> 0, m |-> 0]

\* a well-formed 24-hour "HH:MM" string
WellFormedTime(t) == t.k = "hm" /\ t.h \in 0..23 /\ t.m \in 0..59

parseTime(timeStr) ==
  IF timeStr.k = "hm" THEN Num(timeStr.h * 60 + timeStr.m) ELSE NaN

\* formatTime without the wrap of the hours at 24
formatTime_noWrap(totalMinutes) ==
  LET rounded == MathRound(totalMinutes)
  IN  IF ~IsFinite(rounded) THEN NaNStr
      ELSE LET mins == rounded[1]
           IN  T(mins \div 60, JsRem(mins, 60))

formatTime(totalMinutes) ==
  LET rounded == MathRound(totalMinutes)
  IN  IF ~IsFinite(rounded) THEN NaNStr
      ELSE LET mins == rounded[1]
               hours == JsRem(mins \div 60, 24)
           IN  T(hours, JsRem(mins, 60))

\* addMinutes counting from midnight instead of from timeStr
addMinutes_fromMidnight(timeStr, minutesToAdd) == formatTime(minutesToAdd)

addMinutes(timeStr, minutesToAdd) ==
  formatTime(Plus(parseTime(timeStr), minutesToAdd))

\* calculateEP adding the metres of climb unscaled
calculateEP_unscaled(distanceKm, elevM) == Plus(distanceKm, elevM)

calculateEP(distanceKm, elevM) == Plus(distanceKm, Div(elevM, Num(100)))

(***************************************************************************)
(* Text: a string is the sequence of its character codes                   *)
(***************************************************************************)
StrStart == <<83, 116, 97, 114, 116>>
StrStartPoint == <<83, 116, 97, 114, 116, 32, 80, 111, 105, 110, 116>>
StrA == <<65>>
StrStartToA == <<83, 116, 97, 114, 116, 32, 84, 111, 32, 65>>
StrTo == <<32, 84, 111, 32>>
StrX == <<88>>
StrQuote == <<39>>

\* String.fromCharCode(str.charCodeAt(0) + 1); charCodeAt(0) of "" is NaN,
\* and fromCharCode(NaN) is the character with code 0
NextCharOf(str) ==
  IF Len(str) = 0 THEN <<0>> ELSE <<(str[1] + 1) % 65536>>

(***************************************************************************)
(* Segments                                                                *)
(***************************************************************************)
DEFAULT_START_TIME == T(7, 0)

\* customDurationMins: <<>> is undefined, <<x>> is the number x
Undefined == <<>>
Some(x) == <<x>>

\* generateId(), taken to return a value never returned before
generateId == nextId

createEmptySegment(id, name, description) ==
  [ id |-> id,
    name |-> name,
    description |-> description,
    splitDistKm |-> Zero,
    splitElevM |-> Zero,
    targetEPH |-> Num(10),
    ep |-> Zero,
    targetTimeHours |-> Zero,
    targetTimeMins |-> Zero,
    startTime |-> DEFAULT_START_TIME,
    endTime |-> DEFAULT_START_TIME,
    totalDistKm |-> Zero,
    accuElevM |-> Zero,
    accuTimeHours |-> Zero,
    accuEPH |-> Zero,
    customDurationMins |-> Undefined ]

\* seg.customDurationMins !== undefined && seg.customDurationMins > 0
FixedDuration(seg) ==
  seg.customDurationMins # Undefined /\ Gt(seg.customDurationMins[1], Zero)

\* Duration without the branch for the start row
Duration_noStartRow(seg, index, ep) ==
  IF FixedDuration(seg)
  THEN LET targetTimeMins == seg.customDurationMins[1]
       IN  [hours |-> Div(targetTimeMins, Num(60)), mins |-> targetTimeMins]
  ELSE LET safeEPH == IF Gt(seg.targetEPH, Zero) THEN seg.targetEPH ELSE Num(1)
           targetTimeHours == Div(ep, safeEPH)
       IN  [hours |-> targetTimeHours, mins |-> Times(targetTimeHours, Num(60))]

\* Duration dividing by targetEPH itself, without safeEPH
Duration_noSafeEPH(seg, index, ep) ==
  IF index = 0
  THEN [hours |-> Zero, mins |-> Zero]
  ELSE IF FixedDuration(seg)
       THEN LET targetTimeMins == seg.customDurationMins[1]
            IN  [hours |-> Div(targetTimeMins, Num(60)), mins |-> targetTimeMins]
       ELSE LET targetTimeHours == Div(ep, seg.targetEPH)
            IN  [hours |-> targetTimeHours, mins |-> Times(targetTimeHours, Num(60))]

\* Duration reading the stored seg.ep instead of the ep just computed
Duration_storedEP(seg, index, ep) ==
  IF index = 0
  THEN [hours |-> Zero, mins |-> Zero]
  ELSE IF FixedDuration(seg)
       THEN LET targetTimeMins == seg.customDurationMins[1]
            IN  [hours |-> Div(targetTimeMins, Num(60)), mins |-> targetTimeMins]
       ELSE LET safeEPH == IF Gt(seg.targetEPH, Zero) THEN seg.targetEPH ELSE Num(1)
                targetTimeHours == Div(seg.ep, safeEPH)
            IN  [hours |-> targetTimeHours, mins |-> Times(targetTimeHours, Num(60))]

\* the duration of one row: [hours, mins]
Duration(seg, index, ep) ==
  IF index = 0
  THEN [hours |-> Zero, mins |-> Zero]
  ELSE IF FixedDuration(seg)
       THEN LET targetTimeMins == seg.customDurationMins[1]
            IN  [hours |-> Div(targetTimeMins, Num(60)), mins |-> targetTimeMins]
       ELSE LET safeEPH == IF Gt(seg.targetEPH, Zero) THEN seg.targetEPH ELSE Num(1)
                targetTimeHours == Div(ep, safeEPH)
            IN  [hours |-> targetTimeHours, mins |-> Times(targetTimeHours, Num(60))]

\* EffectiveEPH derived back from a fixed duration
EffectiveEPH_backDerived(seg, index, ep, dur) ==
  IF index # 0 /\ FixedDuration(seg) THEN Div(ep, dur.hours) ELSE seg.targetEPH

\* EffectiveEPH writing back safeEPH
EffectiveEPH_safe(seg, index, ep, dur) ==
  IF Gt(seg.targetEPH, Zero) THEN seg.targetEPH ELSE Num(1)

\* targetEPH as written back by the pass
EffectiveEPH(seg, index, ep, dur) == seg.targetEPH

\* SegStartTime that starts every row at the global start
SegStartTime_global(index, globalStart, currentClockTime) == globalStart

\* the first clock time of a row
SegStartTime(index, globalStart, currentClockTime) ==
  IF index = 0 THEN globalStart ELSE currentClockTime

\* AccuEPH dividing whatever the accumulated time is
AccuEPH_noGuard(index, runningDist, runningElev, runningTimeHours) ==
  IF index = 0 THEN Zero
  ELSE Div(Plus(runningDist, Div(runningElev, Num(100))), runningTimeHours)

\* the value written to accuEPH
AccuEPH(index, runningDist, runningElev, runningTimeHours) ==
  IF index = 0 THEN Zero
  ELSE IF Gt(runningTimeHours, Zero)
       THEN Div(Plus(runningDist, Div(runningElev, Num(100))), runningTimeHours)
       ELSE Zero

\* the accumulators before the first row
InitialAcc(globalStart) ==
  [ runningDist |-> Zero, runningElev |-> Zero, runningTimeHours |-> Zero,
    currentClockTime |-> globalStart ]

\* RecalcRow leaving the start row's distance and climb out of the totals
RecalcRow_skipStartRow(seg, index, acc, globalStart) ==
  LET ep == calculateEP(seg.splitDistKm, seg.splitElevM)
      dur == Duration(seg, index, ep)
      runningDist == IF index = 0 THEN acc.runningDist
                     ELSE Plus(acc.runningDist, seg.splitDistKm)
      runningElev == IF index = 0 THEN acc.runningElev
                     ELSE Plus(acc.runningElev, seg.splitElevM)
      runningTimeHours == Plus(acc.runningTimeHours, dur.hours)
      segStartTime == SegStartTime(index, globalStart, acc.currentClockTime)
      segEndTime == addMinutes(segStartTime, dur.mins)
  IN  [ seg |-> [ seg EXCEPT
                    !.ep = ep,
                    !.targetEPH = EffectiveEPH(seg, index, ep, dur),
                    !.targetTimeHours = dur.hours,
                    !.targetTimeMins = dur.mins,
                    !.startTime = segStartTime,
                    !.endTime = segEndTime,
                    !.totalDistKm = runningDist,
                    !.accuElevM = runningElev,
                    !.accuTimeHours = runningTimeHours,
                    !.accuEPH = AccuEPH(index, runningDist, runningElev, runningTimeHours) ],
        acc |-> [ runningDist |-> runningDist, runningElev |-> runningElev,
                  runningTimeHours |-> runningTimeHours,
                  currentClockTime |-> segEndTime ] ]

\* one iteration of the map callback: the row written and the accumulators
RecalcRow(seg, index, acc, globalStart) ==
  LET ep == calculateEP(seg.splitDistKm, seg.splitElevM)
      dur == Duration(seg, index, ep)
      runningDist == Plus(acc.runningDist, seg.splitDistKm)
      runningElev == Plus(acc.runningElev, seg.splitElevM)
      runningTimeHours == Plus(acc.runningTimeHours, dur.hours)
      segStartTime == SegStartTime(index, globalStart, acc.currentClockTime)
      segEndTime == addMinutes(segStartTime, dur.mins)
  IN  [ seg |-> [ seg EXCEPT
                    !.ep = ep,
                    !.targetEPH = EffectiveEPH(seg, index, ep, dur),
                    !.targetTimeHours = dur.hours,
                    !.targetTimeMins = dur.mins,
                    !.startTime = segStartTime,
                    !.endTime = segEndTime,
                    !.totalDistKm = runningDist,
                    !.accuElevM = runningElev,
                    !.accuTimeHours = runningTimeHours,
                    !.accuEPH = AccuEPH(index, runningDist, runningElev, runningTimeHours) ],
        acc |-> [ runningDist |-> runningDist, runningElev |-> runningElev,
                  runningTimeHours |-> runningTimeHours,
                  currentClockTime |-> segEndTime ] ]

RECURSIVE RecalcFrom(_, _, _, _)
RecalcFrom(currentSegments, pos, acc, globalStart) ==
  IF pos > Len(currentSegments) THEN <<>>
  ELSE LET r == RecalcRow(currentSegments[pos], pos - 1, acc, globalStart)
       IN  <<r.seg>> \o RecalcFrom(currentSegments, pos + 1, r.acc, globalStart)

recalculateSegments(currentSegments, globalStart) ==
  RecalcFrom(currentSegments, 1, InitialAcc(globalStart), globalStart)

(***************************************************************************)
(* Inputs of the editor                                                    *)
(***************************************************************************)
\* what parseFloat reads from a number input: NaN for text that is no number
RawDistInputs == {NaN, Num(-1), Num(1)}
RawElevInputs == {Num(50)}
RawEPHInputs == {NaN, Num(3), Num(7)}
\* values of the time inputs; "" is a cleared input
EndTimeInputs == {T(7, 0), T(7, 20), T(6, 30), EmptyStr}
StartTimeInputs == {T(23, 50), T(0, 0), EmptyStr}
NameInputs == {<<90>>, <<>>}
DescriptionInputs == {<<>>}

\* parseFloat(e.target.value) || 0
OrZero(raw) == IF IsNaN(raw) \/ raw = Zero THEN Zero ELSE raw

NumericFields == {"splitDistKm", "splitElevM", "targetEPH"}

RawInputs(field) ==
  CASE field = "splitDistKm" -> RawDistInputs
    [] field = "splitElevM" -> RawElevInputs
    [] field = "targetEPH" -> RawEPHInputs

(***************************************************************************)
(* The editor                                                              *)
(***************************************************************************)
\* the record kept in lastOp for a call of handler op on position i
Call(op, i, field, value) ==
  [ op |-> op, index |-> i - 1, field |-> field, value |-> value,
    lenBefore |-> Len(segments),
    fixedBefore |-> i \in 1..Len(segments) /\ FixedDuration(segments[i]) ]

\* the state after the mount effects of a new session
Init ==
  /\ startTime = DEFAULT_START_TIME
  /\ segments = recalculateSegments(
        << [createEmptySegment(0, StrStart, StrStartPoint) EXCEPT !.targetEPH = Zero],
           createEmptySegment(1, StrA, StrStartToA) >>,
        DEFAULT_START_TIME)
  /\ nextId = 2
  /\ nOps = 0
  /\ lastOp = [op |-> "mount", index |-> -1, field |-> "", value |-> <<>>,
               lenBefore |-> 0,
               fixedBefore |-> FALSE]

\* WithField that leaves customDurationMins alone
WithField_keepCustom(seg, field, value) ==
  CASE field = "name" -> [seg EXCEPT !.name = value]
    [] field = "description" -> [seg EXCEPT !.description = value]
    [] field = "splitDistKm" -> [seg EXCEPT !.splitDistKm = value]
    [] field = "splitElevM" -> [seg EXCEPT !.splitElevM = value]
    [] field = "targetEPH" -> [seg EXCEPT !.targetEPH = value]

\* WithField clearing customDurationMins whatever the field
WithField_clearAlways(seg, field, value) ==
  LET set == CASE field = "name" -> [seg EXCEPT !.name = value]
               [] field = "description" -> [seg EXCEPT !.description = value]
               [] field = "splitDistKm" -> [seg EXCEPT !.splitDistKm = value]
               [] field = "splitElevM" -> [seg EXCEPT !.splitElevM = value]
               [] field = "targetEPH" -> [seg EXCEPT !.targetEPH = value]
  IN  [set EXCEPT !.customDurationMins = Undefined]

\* { ...updated[index], [field]: value } and the clearing of customDurationMins
WithField(seg, field, value) ==
  LET set == CASE field = "name" -> [seg EXCEPT !.name = value]
               [] field = "description" -> [seg EXCEPT !.description = value]
               [] field = "splitDistKm" -> [seg EXCEPT !.splitDistKm = value]
               [] field = "splitElevM" -> [seg EXCEPT !.splitElevM = value]
               [] field = "targetEPH" -> [seg EXCEPT !.targetEPH = value]
  IN  IF field = "targetEPH" THEN [set EXCEPT !.customDurationMins = Undefined]
      ELSE set

updateSegment(i, field, value) ==
  /\ nOps < MaxOps
  /\ i \in 1..Len(segments)
  /\ segments' = recalculateSegments(
        [segments EXCEPT ![i] = WithField(segments[i], field, value)], startTime)
  /\ nOps' = nOps + 1
  /\ lastOp' = Call("updateSegment", i, field, value)
  /\ UNCHANGED <<startTime, nextId>>

\* StartTimeEffect without the effect that recalculates
StartTimeEffect_noRecalc(v) ==
  /\ startTime' = v
  /\ segments' = segments

\* setStartTime and the effect that depends on startTime
StartTimeEffect(v) ==
  /\ startTime' = v
  /\ segments' = IF v = startTime THEN segments
                 ELSE recalculateSegments(segments, v)

setStartTime(v) ==
  /\ nOps < MaxOps
  /\ StartTimeEffect(v)
  /\ nOps' = nOps + 1
  /\ lastOp' = Call("setStartTime", 0, "", v)
  /\ UNCHANGED nextId

\* DurationMins without the overnight correction
DurationMins_noOvernight(segStart, newEndTime) ==
  LET durationMins == Minus(parseTime(newEndTime), parseTime(segStart))
  IN  IF Le(durationMins, Zero) THEN Num(1) ELSE durationMins

\* the duration handleEndTimeChange stores
DurationMins(segStart, newEndTime) ==
  LET startMins == parseTime(segStart)
      endMins0 == parseTime(newEndTime)
      endMins == IF Lt(endMins0, startMins) THEN Plus(endMins0, Num(24 * 60))
                 ELSE endMins0
      durationMins == Minus(endMins, startMins)
  IN  IF Le(durationMins, Zero) THEN Num(1) ELSE durationMins

handleEndTimeChange(i, newEndTime) ==
  /\ nOps < MaxOps
  /\ i \in 1..Len(segments)
  /\ IF i = 1
     THEN StartTimeEffect(newEndTime)
     ELSE /\ segments' = recalculateSegments(
                [segments EXCEPT ![i].customDurationMins =
                    Some(DurationMins(segments[i].startTime, newEndTime))],
                startTime)
          /\ UNCHANGED startTime
  /\ nOps' = nOps + 1
  /\ lastOp' = Call("handleEndTimeChange", i, "", newEndTime)
  /\ UNCHANGED nextId

addRow ==
  /\ nOps < MaxOps
  /\ Len(segments) < MaxSegs
  /\ LET lastChar == segments[Len(segments)].name
         nextChar == NextCharOf(lastChar)
         shown == IF Len(nextChar) > 1 THEN StrX ELSE nextChar
         newSeg == createEmptySegment(generateId, shown, lastChar \o StrTo \o shown)
     IN  segments' = recalculateSegments(Append(segments, newSeg), startTime)
  /\ nextId' = nextId + 1
  /\ nOps' = nOps + 1
  /\ lastOp' = Call("addRow", 0, "", <<>>)
  /\ UNCHANGED startTime

\* updated.splice(index + 1, 0, newSeg)
InsertAfter(s, i, x) == SubSeq(s, 1, i) \o <<x>> \o SubSeq(s, i + 1, Len(s))

\* DuplicateOf keeping the id of the original
DuplicateOf_sameId(original, id) ==
  [original EXCEPT !.name = original.name \o StrQuote]

\* DuplicateOf as a plain copy of the original
DuplicateOf_plainCopy(original, id) == original

\* { ...original, id: generateId(), name: original.name + "'" }
DuplicateOf(original, id) ==
  [original EXCEPT !.id = id, !.name = original.name \o StrQuote]

duplicateRow(i) ==
  /\ nOps < MaxOps
  /\ Len(segments) < MaxSegs
  /\ i \in 1..Len(segments)
  /\ LET original == segments[i]
         newSeg == DuplicateOf(original, generateId)
     IN  segments' = recalculateSegments(InsertAfter(segments, i, newSeg), startTime)
  /\ nextId' = nextId + 1
  /\ nOps' = nOps + 1
  /\ lastOp' = Call("duplicateRow", i, "", <<>>)
  /\ UNCHANGED startTime

\* RemoveAt taking out the first row whatever the index
RemoveAt_first(s, i) == Tail(s)

\* segments.filter((_, i) => i !== index)
RemoveAt(s, i) == SubSeq(s, 1, i - 1) \o SubSeq(s, i + 1, Len(s))

\* RefusesDelete that only refuses on an empty list
RefusesDelete_offByOne(s) == Len(s) < 1

\* RefusesDelete that never refuses
RefusesDelete_never(s) == FALSE

\* whether deleteRow returns before removing anything
RefusesDelete(s) == Len(s) <= 1

deleteRow(i) ==
  /\ nOps < MaxOps
  /\ i \in 1..Len(segments)
  /\ segments' = IF RefusesDelete(segments) THEN segments
                 ELSE recalculateSegments(RemoveAt(segments, i), startTime)
  /\ nOps' = nOps + 1
  /\ lastOp' = Call("deleteRow", i, "", <<>>)
  /\ UNCHANGED <<startTime, nextId>>

\* segments.reduce((acc, s) => acc + s.ep, 0)
RECURSIVE ReduceEP(_, _, _)
ReduceEP(s, pos, acc) ==
  IF pos > Len(s) THEN acc ELSE ReduceEP(s, pos + 1, Plus(acc, s[pos].ep))

\* Session taking its totals from the first segment
Session_firstSeg(id) ==
  LET lastSeg == segments[1]
  IN  [ id |-> id,
        globalStartTime |-> startTime,
        segments |-> segments,
        totalDistance |-> lastSeg.totalDistKm,
        totalElevation |-> lastSeg.accuElevM,
        totalEP |-> lastSeg.ep,
        totalDurationHours |-> lastSeg.accuTimeHours ]

\* the session handleSave builds for a new session (initialSession is null);
\* its name and date are not modelled
Session(id) ==
  LET lastSeg == segments[Len(segments)]
  IN  [ id |-> id,
        globalStartTime |-> startTime,
        segments |-> segments,
        totalDistance |-> lastSeg.totalDistKm,
        totalElevation |-> lastSeg.accuElevM,
        totalEP |-> ReduceEP(segments, 1, Zero),
        totalDurationHours |-> lastSeg.accuTimeHours ]

\* handleSave hands the session to onSave, which leaves the editor: no
\* handler of the editor runs after it
handleSave ==
  /\ nOps < MaxOps
  /\ lastOp' = Call("handleSave", 0, "", Session(generateId))
  /\ nextId' = nextId + 1
  /\ nOps' = MaxOps
  /\ UNCHANGED <<startTime, segments>>

Next ==
  \/ \E i \in 1..MaxSegs, field \in NumericFields :
       \E raw \in RawInputs(field) : updateSegment(i, field, OrZero(raw))
  \/ \E i \in 1..MaxSegs, v \in NameInputs : updateSegment(i, "name", v)
  \/ \E i \in 1..MaxSegs, v \in DescriptionInputs : updateSegment(i, "description", v)
  \/ \E v \in StartTimeInputs : setStartTime(v)
  \/ \E i \in 1..MaxSegs, v \in EndTimeInputs : handleEndTimeChange(i, v)
  \/ addRow
  \/ \E i \in 1..MaxSegs : duplicateRow(i)
  \/ \E i \in 1..MaxSegs : deleteRow(i)
  \/ handleSave

Spec == Init /\ [][Next]_vars

(***************************************************************************)
(* The recalculation alone: recalculateSegments applied, MaxPasses times,  *)
(* to segment lists whose inputs are drawn from small sets and whose       *)
(* derived fields are stale                                                *)
(***************************************************************************)
RecalcDistValues == {Num(-1), Zero, Num(1)}
RecalcElevValues == {Zero, Num(50)}
RecalcEPHValues == {Zero, Num(7)}
RecalcCustomValues == {Undefined, Some(Zero), Some(NaN), Some(Num(20))}
RecalcStartValues == {DEFAULT_START_TIME, T(23, 50)}

RecalcSegs ==
  { [createEmptySegment(0, StrA, StrStartToA) EXCEPT
        !.splitDistKm = d, !.splitElevM = e, !.targetEPH = p,
        !.customDurationMins = c] :
      d \in RecalcDistValues, e \in RecalcElevValues,
      p \in RecalcEPHValues, c \in RecalcCustomValues }

WithIds(s) == [i \in 1..Len(s) |-> [s[i] EXCEPT !.id = i - 1]]

InitRecalc ==
  /\ startTime \in RecalcStartValues
  /\ segments \in { WithIds(s) :
                      s \in UNION { [1..n -> RecalcSegs] : n \in 1..MaxRecalcLen } }
  /\ nextId = Len(segments)
  /\ nOps = 0
  /\ lastOp = [op |-> "mount", index |-> -1, field |-> "", value |-> <<>>,
               lenBefore |-> 0,
               fixedBefore |-> FALSE]

Recalculate ==
  /\ nOps < MaxPasses
  /\ segments' = recalculateSegments(segments, startTime)
  /\ nOps' = nOps + 1
  /\ lastOp' = Call("recalculateSegments", 0, "", <<>>)
  /\ UNCHANGED <<startTime, nextId>>

NextRecalc == Recalculate

SpecRecalc == InitRecalc /\ [][NextRecalc]_vars

(***************************************************************************)
(* The clock utilities alone: addMinutes applied to a well-formed time and *)
(* a whole number of minutes, formatTime applied to a whole number of      *)
(* minutes; startTime holds the argument and then the result               *)
(***************************************************************************)
ClockHours == 0..23
ClockMinutes == {0, 30, 50, 59}
ClockTimes == { T(h, m) : h \in ClockHours, m \in ClockMinutes }

InitClock ==
  /\ startTime \in ClockTimes
  /\ segments = <<>>
  /\ nextId = 0
  /\ nOps = 0
  /\ lastOp = [op |-> "mount", index |-> -1, field |-> "", value |-> <<>>,
               lenBefore |-> 0,
               fixedBefore |-> FALSE]

AddMinutes(m) ==
  /\ nOps = 0
  /\ startTime' = addMinutes(startTime, Num(m))
  /\ nOps' = nOps + 1
  /\ lastOp' = Call("addMinutes", 0, "", Num(m))
  /\ UNCHANGED <<segments, nextId>>

FormatTime(n) ==
  /\ nOps = 0
  /\ startTime' = formatTime(Num(n))
  /\ nOps' = nOps + 1
  /\ lastOp' = Call("formatTime", 0, "", Num(n))
  /\ UNCHANGED <<segments, nextId>>

NextClock ==
  \/ \E m \in 0..MaxMinutes : AddMinutes(m)
  \/ \E n \in 0..MaxMinutes : FormatTime(n)

SpecClock == InitClock /\ [][NextClock]_vars

(***************************************************************************)
(* Properties                                                              *)
(***************************************************************************)
Row(index) == segments[index + 1]

\* C1: after any sequence of editor operations the segment at index 0 has
\* targetTimeHours = 0, targetTimeMins = 0 and accuEPH = 0, whatever its
\* stored splitDistKm, splitElevM, targetEPH and customDurationMins
C1_StartRowIsZero ==
  \A i \in {1} \cap DOMAIN segments :
    /\ segments[i].targetTimeHours = Zero
    /\ segments[i].targetTimeMins = Zero
    /\ segments[i].accuEPH = Zero

\* a row with a distance, a positive targetEPH and a fixed duration became
\* index 0 because the row before it was deleted
C1_Witness ==
  /\ lastOp.op = "deleteRow" /\ lastOp.index = 0 /\ lastOp.lenBefore > 1
  /\ FixedDuration(Row(0))
  /\ Row(0).splitDistKm # Zero
  /\ Gt(Row(0).targetEPH, Zero)

\* what C2 says of the row after updateSegment(i - 1, 'targetEPH', v),
\* without the comparison with the previous duration
C2_After(i, v) ==
  /\ segments'[i].customDurationMins = Undefined
  /\ ~FixedDuration(segments'[i])
  /\ (i > 1 /\ FixedDuration(segments[i]) /\ Gt(v, Zero)
        => segments'[i].targetTimeHours = Div(segments'[i].ep, v))

\* C2 (as stated): editing targetEPH clears customDurationMins, and for a
\* row at index > 0 that was in Fixed-Duration mode the new targetTimeHours
\* is ep / v (v > 0) and no longer equals the previously fixed duration
C2_Original ==
  [][ lastOp'.op = "updateSegment" /\ lastOp'.field = "targetEPH" =>
        LET i == lastOp'.index + 1
            v == lastOp'.value
        IN  /\ C2_After(i, v)
            /\ (i > 1 /\ FixedDuration(segments[i]) /\ Gt(v, Zero)
                  => segments'[i].targetTimeHours # segments[i].targetTimeHours) ]_vars

\* C2 (amended): editing targetEPH clears customDurationMins, and for a row
\* at index > 0 that was in Fixed-Duration mode the new targetTimeHours is
\* ep / v (v > 0), whether or not that equals the previously fixed duration
C2_EPHEditClearsDuration ==
  [][ lastOp'.op = "updateSegment" /\ lastOp'.field = "targetEPH" =>
        C2_After(lastOp'.index + 1, lastOp'.value) ]_vars

\* targetEPH was just edited to a positive value on a row at index > 0 that
\* was in Fixed-Duration mode and has a non-zero ep
C2_Witness ==
  /\ lastOp.op = "updateSegment" /\ lastOp.field = "targetEPH"
  /\ lastOp.index > 0 /\ lastOp.fixedBefore
  /\ Gt(lastOp.value, Zero)
  /\ Row(lastOp.index).ep # Zero

\* max(1, e - s, plus 1440 when e - s is negative), on whole minutes
ImpliedDuration(s, e) ==
  LET diff == IF e - s < 0 THEN e - s + 1440 ELSE e - s
  IN  IF diff < 1 THEN 1 ELSE diff

\* the step is a call handleEndTimeChange(index > 0, "HH:MM")
C3_Edit ==
  /\ lastOp'.op = "handleEndTimeChange" /\ lastOp'.index > 0
  /\ WellFormedTime(lastOp'.value)

\* the customDurationMins C3 states for an end-time edit of row i to E
C3_Stored(i, E) ==
  segments[i].startTime.k = "hm" =>
    segments'[i].customDurationMins =
      Some(Num(ImpliedDuration(segments[i].startTime.h * 60 + segments[i].startTime.m,
                               E.h * 60 + E.m)))

\* C3 (as stated): an end-time edit of row i > 0 to E stores
\* max(1, parse(E) - parse(startTime_i), plus 1440 when negative) and the
\* recalculation gives row i the endTime E, for every E and every start time
C3_Original ==
  [][ C3_Edit =>
        LET i == lastOp'.index + 1
            E == lastOp'.value
        IN  /\ C3_Stored(i, E)
            /\ segments'[i].endTime = E ]_vars

\* C3 (amended): when the row's start time is a clock string, the edit
\* stores that duration; the new endTime is E when E differs from the start
\* time, and one minute after E when E equals the start time.  When the
\* start time is "NaN:NaN" (the global start input was cleared) the edit
\* stores NaN and the endTime stays "NaN:NaN"
C3_EndTimeEdit ==
  [][ C3_Edit =>
        LET i == lastOp'.index + 1
            E == lastOp'.value
        IN  /\ C3_Stored(i, E)
            /\ segments'[i].startTime = segments[i].startTime
            /\ (segments[i].startTime.k = "hm" /\ E # segments[i].startTime =>
                  segments'[i].endTime = E)
            /\ (E = segments[i].startTime =>
                  /\ segments'[i].customDurationMins = Some(Num(1))
                  /\ segments'[i].endTime = T(((E.h * 60 + E.m + 1) \div 60) % 24,
                                              (E.m + 1) % 60))
            /\ (segments[i].startTime.k # "hm" =>
                  /\ segments[i].startTime = NaNStr
                  /\ segments'[i].customDurationMins = Some(NaN)
                  /\ segments'[i].endTime = NaNStr) ]_vars

\* an end-time edit on a row at index > 0 set an end time before the row's
\* start time on the clock (an overnight leg), and the row ends at that time
C3_Witness ==
  /\ lastOp.op = "handleEndTimeChange" /\ lastOp.index > 0
  /\ FixedDuration(Row(lastOp.index))
  /\ WellFormedTime(Row(lastOp.index).startTime)
  /\ Row(lastOp.index).endTime = lastOp.value
  /\ Lt(parseTime(Row(lastOp.index).endTime), parseTime(Row(lastOp.index).startTime))

C6_TimelineContinuity ==
  \A i \in 2..Len(segments) : segments[i].startTime = segments[i - 1].endTime

\* three rows, the second and the third with a duration that moves the
\* clock, after the global start was changed
C6_Witness ==
  /\ Len(segments) = 3
  /\ startTime # DEFAULT_START_TIME
  /\ segments[2].endTime # segments[2].startTime
  /\ segments[3].endTime # segments[3].startTime

\* C7: a recalculation of the output of a recalculation, with the same
\* global start, changes no field of any segment
C7_Idempotent ==
  [][ lastOp.op = "recalculateSegments" => segments' = segments ]_vars

\* the second pass has run over two rows, the second with a duration that
\* moves the clock
C7_Witness ==
  /\ lastOp.op = "recalculateSegments" /\ nOps >= 2
  /\ \E i \in 2..Len(segments) :
       /\ segments[i].targetTimeMins # Zero
       /\ segments[i].startTime # segments[i].endTime

\* C8: in every state of the editor, splitDistKm, splitElevM and targetEPH
\* of every segment are >= 0
C8_InputsNonNegative ==
  \A i \in 1..Len(segments) :
    /\ Ge(segments[i].splitDistKm, Zero)
    /\ Ge(segments[i].splitElevM, Zero)
    /\ Ge(segments[i].targetEPH, Zero)

\* C9: in every state of the editor the running totals do not decrease
\* along the sequence
C9_TotalsMonotone ==
  \A i \in 2..Len(segments) :
    /\ Ge(segments[i].totalDistKm, segments[i - 1].totalDistKm)
    /\ Ge(segments[i].accuElevM, segments[i - 1].accuElevM)
    /\ Ge(segments[i].accuTimeHours, segments[i - 1].accuTimeHours)

\* C10: the editor never holds an empty segment list
C10_AtLeastOneSegment == Len(segments) >= 1

\* deleteRow was called on a list of one segment, and one segment remains
C10_Witness ==
  /\ lastOp.op = "deleteRow" /\ lastOp.lenBefore = 1
  /\ Len(segments) = 1

\* C11: deleteRow on a list of one segment changes neither the list, nor
\* any field of its segment, nor the global start
C11_DeleteRefused ==
  [][ lastOp'.op = "deleteRow" /\ lastOp'.lenBefore = 1 =>
        /\ segments' = segments
        /\ startTime' = startTime
        /\ nextId' = nextId ]_vars

\* deleteRow(0) was called on a list whose only segment has a distance, and
\* that segment is still there
C11_Witness ==
  /\ lastOp.op = "deleteRow" /\ lastOp.lenBefore = 1 /\ lastOp.index = 0
  /\ Len(segments) = 1
  /\ Row(0).splitDistKm # Zero

\* C12: in every state of the editor the stored list is what a
\* recalculation of it with the current global start returns
C12_NeverStale == segments = recalculateSegments(segments, startTime)

\* the global start was just changed, and the rows after the first, one of
\* them with a duration, start from the new value
C12_Witness ==
  /\ lastOp.op = "setStartTime" /\ lastOp.value = T(23, 50)
  /\ Len(segments) >= 2
  /\ segments[2].startTime = T(23, 50)
  /\ segments[2].targetTimeMins # Zero

\* the fields the recalculation is not to change
Inputs(seg) ==
  << seg.id, seg.name, seg.description, seg.splitDistKm, seg.splitElevM,
     seg.targetEPH, seg.customDurationMins >>

C14_EffortPoints ==
  \A i \in 1..Len(segments) :
    Times(segments[i].ep, Num(100)) =
      Plus(Times(segments[i].splitDistKm, Num(100)), segments[i].splitElevM)

\* the first row and a later row both have a distance and a climb
C14_Witness ==
  /\ Len(segments) >= 2
  /\ \A i \in 1..2 :
       /\ segments[i].splitDistKm # Zero
       /\ segments[i].splitElevM # Zero

\* the name of the previous row is one capital letter
SingleLetter(name) == Len(name) = 1 /\ name[1] \in 65..90

\* C15: addRow adds exactly one segment, at the end, with splitDistKm 0,
\* splitElevM 0, no customDurationMins and a non-zero targetEPH; when the
\* previous row's name is a single letter before "Z" the new name is the
\* next letter, and when it is "Z" the new name is "X"; the segments that
\* were there keep their inputs and order
C15_Append ==
  [][ lastOp'.op = "addRow" =>
        LET n == Len(segments)
            prev == segments[n].name
            added == segments'[n + 1]
        IN  /\ Len(segments') = n + 1
            /\ added.splitDistKm = Zero
            /\ added.splitElevM = Zero
            /\ added.customDurationMins = Undefined
            /\ added.targetEPH # Zero
            /\ (SingleLetter(prev) /\ prev[1] < 90 => added.name = <<prev[1] + 1>>)
            /\ (SingleLetter(prev) /\ prev[1] = 90 => added.name = StrX)
            /\ \A k \in 1..n : Inputs(segments'[k]) = Inputs(segments[k]) ]_vars

C17_StartRowTimes ==
  /\ segments[1].startTime = startTime
  /\ segments[1].endTime = startTime

\* C18: in every state of the editor every segment's startTime and endTime
\* is a clock string "HH:MM" with HH in 00..23 and MM in 00..59
C18_WellFormedTimes ==
  \A i \in 1..Len(segments) :
    /\ WellFormedTime(segments[i].startTime)
    /\ WellFormedTime(segments[i].endTime)

\* the "HH:MM" string of x minutes after midnight, 0 <= x < 1440
Rendering(x) == T(x \div 60, x % 60)

\* C19: for a well-formed time t and a whole number m >= 0 of minutes,
\* addMinutes(t, m) is the rendering of (parseTime(t) + m) mod 1440; for a
\* whole number n >= 0, formatTime(n) is well-formed and
\* parseTime(formatTime(n)) = n mod 1440
C19_ClockWraps ==
  [][ /\ lastOp'.op = "addMinutes" =>
           LET m == lastOp'.value[1]
           IN  startTime' = Rendering((startTime.h * 60 + startTime.m + m) % 1440)
      /\ lastOp'.op = "formatTime" =>
           LET n == lastOp'.value[1]
           IN  /\ WellFormedTime(startTime')
               /\ parseTime(startTime') = Num(n % 1440) ]_vars

\* addMinutes("23:50", 20) returned "00:10"
C19_Witness ==
  /\ lastOp.op = "addMinutes" /\ lastOp.value = Num(20)
  /\ startTime = T(0, 10)

C21_StoredDuration ==
  \A i \in 1..Len(segments) :
    \/ segments[i].customDurationMins = Undefined
    \/ LET d == segments[i].customDurationMins[1]
       IN  IsFinite(d) /\ IsInteger(d) /\ d[1] \in 1..1439

\* the ids of a segment list, in order
Ids(s) == [k \in 1..Len(s) |-> s[k].id]

\* no two positions of the list hold the same id
DistinctIds(s) == \A j, k \in 1..Len(s) : j # k => s[j].id # s[k].id

\* every segment that is in the list before and after the step has the id
\* it had: an append adds an id at the end, a duplicate inserts one after
\* the duplicated row, a delete takes one out, every other step leaves the
\* sequence of ids as it was
IdsStable ==
  LET old == Ids(segments)
      new == Ids(segments')
      n == Len(segments)
      p == lastOp'.index + 1
  IN  CASE lastOp'.op = "addRow" ->
             Len(new) = n + 1 /\ SubSeq(new, 1, n) = old
        [] lastOp'.op = "duplicateRow" ->
             /\ Len(new) = n + 1
             /\ SubSeq(new, 1, p) = SubSeq(old, 1, p)
             /\ SubSeq(new, p + 2, n + 1) = SubSeq(old, p + 1, n)
        [] lastOp'.op = "deleteRow" /\ n > 1 ->
             /\ Len(new) = n - 1
             /\ SubSeq(new, 1, p - 1) = SubSeq(old, 1, p - 1)
             /\ SubSeq(new, p, n - 1) = SubSeq(old, p + 1, n)
        [] OTHER -> new = old

\* C22: with generateId returning a value it has not returned before, the
\* ids of the list are pairwise distinct in every state of the editor, and
\* no step changes the id of a segment that stays in the list
C22_IdsUniqueStable == []DistinctIds(segments) /\ [][IdsStable]_vars

\* a row was duplicated and then the original was deleted: the copy, with
\* its own id, has moved up next to the start row
C22_Witness ==
  /\ lastOp.op = "deleteRow" /\ lastOp.index = 1 /\ lastOp.lenBefore = 3
  /\ Ids(segments) = <<0, 2>>
  /\ segments[2].name = StrA \o StrQuote

\* the sum of the ep of the segments from position k to the end
RECURSIVE SumEPFrom(_, _)
SumEPFrom(s, k) ==
  IF k > Len(s) THEN Zero ELSE Plus(s[k].ep, SumEPFrom(s, k + 1))

\* C23: the session handed to onSave has totalDistance, totalElevation and
\* totalDurationHours equal to the last segment's totalDistKm, accuElevM and
\* accuTimeHours, totalEP equal to the sum of ep over all segments,
\* globalStartTime equal to the global start and the current segment list;
\* saving changes neither the list nor the global start
C23_SaveSnapshot ==
  [][ lastOp'.op = "handleSave" =>
        LET session == lastOp'.value
            last == segments[Len(segments)]
        IN  /\ session.totalDistance = last.totalDistKm
            /\ session.totalElevation = last.accuElevM
            /\ session.totalDurationHours = last.accuTimeHours
            /\ session.totalEP = SumEPFrom(segments, 1)
            /\ session.globalStartTime = startTime
            /\ session.segments = segments
            /\ segments' = segments
            /\ startTime' = startTime ]_vars

\* a session was saved whose rows all add to the totals: the distance and
\* the effort total are more than the last row's own
C23_Witness ==
  /\ lastOp.op = "handleSave"
  /\ Len(segments) >= 2
  /\ segments[1].ep # Zero
  /\ segments[Len(segments)].ep # Zero
  /\ lastOp.value.totalEP # segments[Len(segments)].ep
  /\ lastOp.value.totalDistance # segments[Len(segments)].splitDistKm

\* the sum of field f over the segments at positions 1..k
RECURSIVE SumUpTo(_, _, _)
SumUpTo(s, f, k) == IF k = 0 THEN Zero ELSE Plus(SumUpTo(s, f, k - 1), s[k][f])

\* C25: in every state of the editor, for every segment, totalDistKm,
\* accuElevM and accuTimeHours are the sums of splitDistKm, splitElevM and
\* targetTimeHours over the segments up to and including it, the first row
\* included
C25_PrefixSums ==
  \A i \in 1..Len(segments) :
    /\ segments[i].totalDistKm = SumUpTo(segments, "splitDistKm", i)
    /\ segments[i].accuElevM = SumUpTo(segments, "splitElevM", i)
    /\ segments[i].accuTimeHours = SumUpTo(segments, "targetTimeHours", i)

\* the start row has a distance and a climb, the next row has a duration,
\* and the totals at the next row count both rows
C25_Witness ==
  /\ Len(segments) >= 2
  /\ segments[1].splitDistKm # Zero /\ segments[1].splitElevM # Zero
  /\ segments[1].targetTimeHours = Zero
  /\ segments[2].splitDistKm # Zero
  /\ segments[2].accuTimeHours # Zero
  /\ segments[2].totalDistKm # segments[2].splitDistKm
  /\ segments[2].accuElevM = segments[1].splitElevM

\* the step is an end-time edit or a targetEPH edit of the row at position j
OwnModeEdit(j) ==
  /\ lastOp'.index = j - 1
  /\ \/ lastOp'.op = "handleEndTimeChange"
     \/ lastOp'.op = "updateSegment" /\ lastOp'.field = "targetEPH"

\* C27: a fixed-duration segment that is in the list before and after a step
\* which is not its own end-time edit or targetEPH edit keeps its
\* customDurationMins, and keeps its targetTimeMins when it is not the first
\* row before or after the step
C27_ModeFrame ==
  [][ \A j \in 1..Len(segments), k \in 1..Len(segments') :
        ( /\ segments'[k].id = segments[j].id
          /\ FixedDuration(segments[j])
          /\ ~OwnModeEdit(j) ) =>
            /\ segments'[k].customDurationMins = segments[j].customDurationMins
            /\ (j > 1 /\ k > 1 =>
                  segments'[k].targetTimeMins = segments[j].targetTimeMins) ]_vars

\* the distance of a fixed-duration row was edited: the row has the new
\* distance and still the duration that was stored
C27_Witness ==
  /\ lastOp.op = "updateSegment" /\ lastOp.field = "splitDistKm"
  /\ lastOp.index = 1 /\ lastOp.fixedBefore
  /\ segments[2].splitDistKm = lastOp.value /\ lastOp.value # Zero
  /\ FixedDuration(segments[2])
  /\ segments[2].targetTimeMins = segments[2].customDurationMins[1]

\* C28: a field edit or end-time edit of the row at position p, a
\* duplication or a deletion at position p, leaves the segments at the
\* positions before p as they were, field by field; an append leaves every
\* segment that was in the list as it was
C28_ForwardOnly ==
  [][ LET p == lastOp'.index + 1
          n == Len(segments)
      IN  /\ lastOp'.op \in {"updateSegment", "handleEndTimeChange",
                             "duplicateRow", "deleteRow"} =>
               \A j \in 1..(p - 1) :
                 j <= Len(segments') /\ segments'[j] = segments[j]
          /\ lastOp'.op = "addRow" =>
               \A j \in 1..n : segments'[j] = segments[j] ]_vars

\* the distance of the third row was edited; the rows before it, the second
\* with a distance and a duration of its own, are as they were
C28_Witness ==
  /\ lastOp.op = "updateSegment" /\ lastOp.field = "splitDistKm"
  /\ lastOp.index = 2
  /\ Len(segments) = 3
  /\ segments[3].splitDistKm = lastOp.value /\ lastOp.value # Zero
  /\ segments[2].splitDistKm # Zero
  /\ segments[2].targetTimeMins # Zero

\* the minutes from the global start to the end of the row at position k, as
\* the accumulated duration gives them
AccumulatedMins(k) == Times(Num(60), segments[k].accuTimeHours)

\* x is a whole number >= 0
WholeNonNegative(x) == IsFinite(x) /\ IsInteger(x) /\ x[1] >= 0

\* the integer nearest to the finite number x, halves going up
Nearest(x) == (2 * x[1] + x[2]) \div (2 * x[2])

\* C29 (as stated): in every state of the editor, every segment's endTime is
\* the time string of parseTime(globalStart) + 60 * accuTimeHours, rounded
\* to the nearest minute and wrapped at 24 hours
C29_Original ==
  \A k \in 1..Len(segments) :
    segments[k].endTime = formatTime(Plus(parseTime(startTime), AccumulatedMins(k)))

\* C29 (amended): the clock is carried from row to row and rounded at every
\* row.  For a row with a well-formed startTime and a duration >= 0, endTime
\* is the rendering of parseTime(startTime) + targetTimeMins, rounded to the
\* nearest minute and taken mod 1440; when the global start is well-formed
\* and every row up to it has a whole number >= 0 of minutes, endTime is also
\* the rendering of parseTime(globalStart) + 60 * accuTimeHours mod 1440
C29_CarriedClock ==
  \A k \in 1..Len(segments) :
    LET seg == segments[k]
    IN  /\ (WellFormedTime(seg.startTime) /\ Ge(seg.targetTimeMins, Zero) =>
              seg.endTime =
                Rendering(Nearest(Plus(parseTime(seg.startTime), seg.targetTimeMins)) % 1440))
        /\ ( /\ WellFormedTime(startTime)
             /\ \A j \in 1..k : WholeNonNegative(segments[j].targetTimeMins) ) =>
               /\ WholeNonNegative(AccumulatedMins(k))
               /\ seg.endTime =
                    Rendering((startTime.h * 60 + startTime.m + AccumulatedMins(k)[1]) % 1440)

\* two rows of 60/7 minutes each after 07:00: the carried clock shows 07:18
\* at the end of the second, the accumulated 120/7 minutes round to 07:17
C29_Witness ==
  /\ Len(segments) = 3
  /\ startTime = T(7, 0)
  /\ segments[2].targetTimeMins = R(60, 7)
  /\ segments[3].targetTimeMins = R(60, 7)
  /\ segments[3].endTime = T(7, 18)
  /\ formatTime(Plus(parseTime(startTime), AccumulatedMins(3))) = T(7, 17)

(***************************************************************************)
(* IEEE-754 doubles.  The arithmetic of the pass as the JavaScript engine  *)
(* performs it: every +, * and / returns the double nearest to the exact   *)
(* result, ties to the even significand.  Only the doubles >= 0 that are   *)
(* zero or normal are represented; no operation here overflows.            *)
(***************************************************************************)
\* natural numbers of any size: the limbs in base 2^15, lowest first, no
\* zero limb at the top
Base == 32768
LimbBits == 15

RECURSIVE BNNorm(_)
BNNorm(a) ==
  IF Len(a) = 0 THEN a
  ELSE IF a[Len(a)] = 0 THEN BNNorm(SubSeq(a, 1, Len(a) - 1)) ELSE a

RECURSIVE BNFromInt(_)
BNFromInt(n) == IF n = 0 THEN <<>> ELSE <<n % Base>> \o BNFromInt(n \div Base)

RECURSIVE BNToInt(_)
BNToInt(a) == IF Len(a) = 0 THEN 0 ELSE a[1] + Base * BNToInt(Tail(a))

Limb(a, i) == IF i <= Len(a) THEN a[i] ELSE 0

RECURSIVE BNCmpFrom(_, _, _)
BNCmpFrom(a, b, i) ==
  IF i = 0 THEN 0
  ELSE IF a[i] < b[i] THEN -1
  ELSE IF a[i] > b[i] THEN 1
  ELSE BNCmpFrom(a, b, i - 1)

BNCmp(a, b) ==
  IF Len(a) < Len(b) THEN -1
  ELSE IF Len(a) > Len(b) THEN 1
  ELSE BNCmpFrom(a, b, Len(a))

RECURSIVE BNAddFrom(_, _, _, _)
BNAddFrom(a, b, i, carry) ==
  IF i > Len(a) /\ i > Len(b)
  THEN IF carry = 0 THEN <<>> ELSE <<carry>>
  ELSE LET t == Limb(a, i) + Limb(b, i) + carry
       IN  <<t % Base>> \o BNAddFrom(a, b, i + 1, t \div Base)

BNAdd(a, b) == BNAddFrom(a, b, 1, 0)

RECURSIVE BNSubFrom(_, _, _, _)
BNSubFrom(a, b, i, borrow) ==
  IF i > Len(a) THEN <<>>
  ELSE LET t == a[i] - Limb(b, i) - borrow
       IN  IF t < 0 THEN <<t + Base>> \o BNSubFrom(a, b, i + 1, 1)
           ELSE <<t>> \o BNSubFrom(a, b, i + 1, 0)

\* a - b for a >= b
BNSub(a, b) == BNNorm(BNSubFrom(a, b, 1, 0))

RECURSIVE BNMulSmallFrom(_, _, _, _)
BNMulSmallFrom(a, k, i, carry) ==
  IF i > Len(a)
  THEN IF carry = 0 THEN <<>> ELSE <<carry>>
  ELSE LET t == a[i] * k + carry
       IN  <<t % Base>> \o BNMulSmallFrom(a, k, i + 1, t \div Base)

\* a * k for 0 <= k < Base
BNMulSmall(a, k) == IF k = 0 THEN <<>> ELSE BNMulSmallFrom(a, k, 1, 0)

Zeros(n) == [i \in 1..n |-> 0]

BNShlLimbs(a, n) == IF Len(a) = 0 THEN a ELSE Zeros(n) \o a

RECURSIVE BNMulFrom(_, _, _)
BNMulFrom(a, b, i) ==
  IF i > Len(b) THEN <<>>
  ELSE BNAdd(BNShlLimbs(BNMulSmall(a, b[i]), i - 1), BNMulFrom(a, b, i + 1))

BNMul(a, b) == BNMulFrom(a, b, 1)

RECURSIVE BNDivSmallFrom(_, _, _, _)
\* the limbs of the quotient from position i down, highest first reversed in
\* place, and the remainder
BNDivSmallFrom(a, k, i, rem) ==
  IF i = 0 THEN [q |-> <<>>, r |-> rem]
  ELSE LET t == rem * Base + a[i]
           rest == BNDivSmallFrom(a, k, i - 1, t % k)
       IN  [q |-> rest.q \o <<t \div k>>, r |-> rest.r]

\* quotient and remainder of a by k, 0 < k < Base
BNDivSmall(a, k) ==
  LET d == BNDivSmallFrom(a, k, Len(a), 0)
  IN  [q |-> BNNorm(d.q), r |-> d.r]

RECURSIVE IntBitLen(_)
IntBitLen(n) == IF n = 0 THEN 0 ELSE 1 + IntBitLen(n \div 2)

BNBitLen(a) ==
  IF Len(a) = 0 THEN 0 ELSE LimbBits * (Len(a) - 1) + IntBitLen(a[Len(a)])

BNShl(a, s) ==
  BNShlLimbs(BNMulSmall(a, 2 ^ (s % LimbBits)), s \div LimbBits)

BNShr(a, s) ==
  LET n == s \div LimbBits
  IN  IF n >= Len(a) THEN <<>>
      ELSE BNDivSmall(SubSeq(a, n + 1, Len(a)), 2 ^ (s % LimbBits)).q

BNPow2(s) == BNShl(<<1>>, s)

BNIsOdd(a) == Len(a) > 0 /\ a[1] % 2 = 1

\* the digit q < Base with d * q <= r < d * (q + 1), for r < d * Base and a
\* divisor d whose top limb is at least Base / 2: the quotient of the top
\* two limbs of r by the top limb of d is q, q + 1 or q + 2
BNDigit(r, d) ==
  LET m == Len(d)
      top2 == Limb(r, m + 1) * Base + Limb(r, m)
      est == top2 \div d[m]
      q0 == IF est > Base - 1 THEN Base - 1 ELSE est
      q1 == IF BNCmp(BNMulSmall(d, q0), r) > 0 THEN q0 - 1 ELSE q0
      q2 == IF BNCmp(BNMulSmall(d, q1), r) > 0 THEN q1 - 1 ELSE q1
  IN  [q |-> q2, r |-> BNSub(r, BNMulSmall(d, q2))]

RECURSIVE BNDivModFrom(_, _, _, _)
\* long division in base 2^15 from limb i of n down, with rem < d carried
BNDivModFrom(n, d, i, rem) ==
  IF i = 0 THEN [q |-> <<>>, r |-> rem]
  ELSE LET step == BNDigit(BNNorm(<<n[i]>> \o rem), d)
           rest == BNDivModFrom(n, d, i - 1, step.r)
       IN  IF step.q >= 0 THEN [q |-> rest.q \o <<step.q>>, r |-> rest.r]
           ELSE [q |-> <<>>, r |-> <<>>]

\* quotient and remainder of n by d, d > 0
BNDivMod(n, d) ==
  LET s == LimbBits - IntBitLen(d[Len(d)])
      res == BNDivModFrom(BNShl(n, s), BNShl(d, s), Len(BNShl(n, s)), <<>>)
  IN  [q |-> BNNorm(res.q), r |-> BNShr(res.r, s)]

\* a double >= 0: [M, E] standing for M * 2^E with M of exactly 53 bits,
\* or DZero
DZero == [M |-> <<>>, E |-> 0]
DIsZero(d) == Len(d.M) = 0

\* the double nearest to n * 2^e, ties to the even significand
DRound(n, e) ==
  LET len == BNBitLen(n)
  IN  IF len = 0 THEN DZero
      ELSE IF len <= 53 THEN [M |-> BNShl(n, 53 - len), E |-> e - (53 - len)]
      ELSE LET s == len - 53
               q == BNShr(n, s)
               rem == BNSub(n, BNShl(q, s))
               c == BNCmp(rem, BNPow2(s - 1))
               up == c > 0 \/ (c = 0 /\ BNIsOdd(q))
               m == IF up THEN BNAdd(q, <<1>>) ELSE q
           IN  IF BNBitLen(m) = 54 THEN [M |-> BNShr(m, 1), E |-> e + s + 1]
               ELSE [M |-> m, E |-> e + s]

\* q with a last bit that tells whether a remainder was dropped
WithSticky(q, r) == BNAdd(BNAdd(q, q), IF Len(r) = 0 THEN <<>> ELSE <<1>>)

\* the double nearest to p / q, for small integers p >= 0, q > 0
DFromRatio(p, q) ==
  IF p = 0 THEN DZero
  ELSE LET d == BNDivSmall(BNShl(BNFromInt(p), 70), q)
       IN  DRound(WithSticky(d.q, BNFromInt(d.r)), -71)

DNum(n) == DFromRatio(n, 1)

DAdd(a, b) ==
  IF DIsZero(a) THEN b
  ELSE IF DIsZero(b) THEN a
  ELSE LET e == IF a.E < b.E THEN a.E ELSE b.E
       IN  DRound(BNAdd(BNShl(a.M, a.E - e), BNShl(b.M, b.E - e)), e)

DMul(a, b) ==
  IF DIsZero(a) \/ DIsZero(b) THEN DZero
  ELSE DRound(BNMul(a.M, b.M), a.E + b.E)

\* a / b for b > 0
DDiv(a, b) ==
  IF DIsZero(a) THEN DZero
  ELSE LET d == BNDivMod(BNShl(a.M, 56), b.M)
       IN  DRound(WithSticky(d.q, d.r), a.E - b.E - 57)

DGt(a, b) ==
  IF DIsZero(a) THEN FALSE
  ELSE IF DIsZero(b) THEN TRUE
  ELSE a.E > b.E \/ (a.E = b.E /\ BNCmp(a.M, b.M) > 0)

\* Math.round of a double below 2^30: floor(x + 1/2), computed exactly
DMathRound(a) ==
  IF DIsZero(a) THEN 0
  ELSE IF a.E >= 0 THEN BNToInt(BNShl(a.M, a.E))
  ELSE LET k == -a.E
       IN  BNToInt(BNShr(BNAdd(BNShl(a.M, 1), BNPow2(k)), k + 1))

\* the closeness of two doubles: their difference, in units of the last
\* place of the one with the smaller exponent, is at most 2^13 (a relative
\* difference below 2^-39)
DNear(a, b) ==
  IF DIsZero(a) \/ DIsZero(b) THEN DIsZero(a) /\ DIsZero(b)
  ELSE LET e == IF a.E < b.E THEN a.E ELSE b.E
           x == BNShl(a.M, a.E - e)
           y == BNShl(b.M, b.E - e)
           diff == IF BNCmp(x, y) >= 0 THEN BNSub(x, y) ELSE BNSub(y, x)
       IN  BNBitLen(diff) <= 14

(***************************************************************************)
(* The recalculation pass on doubles                                       *)
(***************************************************************************)
\* calculateEP on doubles, adding the metres of climb unscaled
calculateEP64_unscaled(distanceKm, elevM) == DAdd(distanceKm, elevM)

\* calculateEP on doubles
calculateEP64(distanceKm, elevM) == DAdd(distanceKm, DDiv(elevM, DNum(100)))

\* addMinutes on a well-formed clock string and a double
addMinutes64(timeStr, minutesToAdd) ==
  formatTime(Num(DMathRound(DAdd(DNum(parseTime(timeStr)[1]), minutesToAdd))))

\* seg.customDurationMins !== undefined && seg.customDurationMins > 0
FixedDuration64(seg) ==
  seg.customDurationMins # Undefined /\ DGt(seg.customDurationMins[1], DZero)

\* const safeEPH = seg.targetEPH > 0 ? seg.targetEPH : 1
SafeEPH64(seg) == IF DGt(seg.targetEPH, DZero) THEN seg.targetEPH ELSE DNum(1)

\* a duration in hours, and in minutes as targetTimeHours * 60
HoursAndMins64(hours) == [hours |-> hours, mins |-> DMul(hours, DNum(60))]

\* Duration64 deriving the minutes of a fixed duration from the hours
Duration64_minsFromHours(seg, index, ep) ==
  IF index = 0 THEN [hours |-> DZero, mins |-> DZero]
  ELSE IF FixedDuration64(seg)
  THEN HoursAndMins64(DDiv(seg.customDurationMins[1], DNum(60)))
  ELSE HoursAndMins64(DDiv(ep, SafeEPH64(seg)))

\* targetTimeHours and targetTimeMins of a row, on doubles
Duration64(seg, index, ep) ==
  IF index = 0 THEN [hours |-> DZero, mins |-> DZero]
  ELSE IF FixedDuration64(seg)
  THEN [hours |-> DDiv(seg.customDurationMins[1], DNum(60)),
        mins |-> seg.customDurationMins[1]]
  ELSE HoursAndMins64(DDiv(ep, SafeEPH64(seg)))

\* AccuEPH64 adding the metres of climb unscaled
AccuEPH64_unscaled(index, runningDist, runningElev, runningTimeHours) ==
  IF index = 0 THEN DZero
  ELSE IF DGt(runningTimeHours, DZero)
       THEN DDiv(DAdd(runningDist, runningElev), runningTimeHours)
       ELSE DZero

\* the value written to accuEPH, on doubles
AccuEPH64(index, runningDist, runningElev, runningTimeHours) ==
  IF index = 0 THEN DZero
  ELSE IF DGt(runningTimeHours, DZero)
       THEN DDiv(DAdd(runningDist, DDiv(runningElev, DNum(100))), runningTimeHours)
       ELSE DZero

\* the accumulators before the first row, on doubles
InitialAcc64(globalStart) ==
  [ runningDist |-> DZero, runningElev |-> DZero, runningTimeHours |-> DZero,
    currentClockTime |-> globalStart ]

RECURSIVE RecalcFrom64(_, _, _, _)
\* the row written and the accumulators carried on, given the values of the
\* callback's local constants and of the running totals after their update
RowWritten64(seg, index, ep, dur, runningDist, runningElev, runningTimeHours, segStartTime, segEndTime) ==
  [ seg |-> [ seg EXCEPT
                !.ep = ep,
                !.targetEPH = seg.targetEPH,
                !.targetTimeHours = dur.hours,
                !.targetTimeMins = dur.mins,
                !.startTime = segStartTime,
                !.endTime = segEndTime,
                !.totalDistKm = runningDist,
                !.accuElevM = runningElev,
                !.accuTimeHours = runningTimeHours,
                !.accuEPH = AccuEPH64(index, runningDist, runningElev,
                                      runningTimeHours) ],
    acc |-> [ runningDist |-> runningDist, runningElev |-> runningElev,
              runningTimeHours |-> runningTimeHours,
              currentClockTime |-> segEndTime ] ]

\* the running totals and the timeline of a row, given its ep and duration
RowTimed64(seg, index, acc, ep, dur, segStartTime) ==
  RowWritten64(seg, index, ep, dur,
               DAdd(acc.runningDist, seg.splitDistKm),
               DAdd(acc.runningElev, seg.splitElevM),
               DAdd(acc.runningTimeHours, dur.hours),
               segStartTime, addMinutes64(segStartTime, dur.mins))

\* the duration of a row, given its ep
RowWithEP64(seg, index, acc, globalStart, ep) ==
  RowTimed64(seg, index, acc, ep, Duration64(seg, index, ep),
             SegStartTime(index, globalStart, acc.currentClockTime))

\* one iteration of the map callback on doubles
RecalcRow64(seg, index, acc, globalStart) ==
  RowWithEP64(seg, index, acc, globalStart,
              calculateEP64(seg.splitDistKm, seg.splitElevM))

\* the rows from position pos on, given the first of them and the accumulators
\* after it
RecalcRest64(currentSegments, pos, r, globalStart) ==
  <<r.seg>> \o RecalcFrom64(currentSegments, pos + 1, r.acc, globalStart)

RecalcFrom64(currentSegments, pos, acc, globalStart) ==
  IF pos > Len(currentSegments) THEN <<>>
  ELSE RecalcRest64(currentSegments, pos,
                    RecalcRow64(currentSegments[pos], pos - 1, acc, globalStart),
                    globalStart)

recalculateSegments64(currentSegments, globalStart) ==
  RecalcFrom64(currentSegments, 1, InitialAcc64(globalStart), globalStart)

RECURSIVE ReduceEP64(_, _, _)
\* segments.reduce((acc, s) => acc + s.ep, 0) on doubles, from position pos
ReduceEP64(s, pos, acc) ==
  IF pos > Len(s) THEN acc ELSE ReduceEP64(s, pos + 1, DAdd(acc, s[pos].ep))

\* the totals of the session handed to onSave, on doubles
Session64(id) ==
  LET lastSeg == segments[Len(segments)]
  IN  [ id |-> id,
        globalStartTime |-> startTime,
        segments |-> segments,
        totalDistance |-> lastSeg.totalDistKm,
        totalElevation |-> lastSeg.accuElevM,
        totalEP |-> ReduceEP64(segments, 1, DZero),
        totalDurationHours |-> lastSeg.accuTimeHours ]

(***************************************************************************)
(* The recalculation on doubles: a start row and up to MaxDoubleLen legs   *)
(* whose inputs are decimal numbers typed into the editor, recalculated    *)
(* once and then saved                                                     *)
(***************************************************************************)
\* the doubles that parseFloat gives for "0", "0.3", "13.2"
DoubleDistValues == {DZero, DFromRatio(3, 10), DFromRatio(132, 10)}
DoubleElevValues == {DZero, DNum(7), DNum(50), DNum(1260)}
\* target EPH and custom duration of the other legs: an EPH of 0, which
\* safeEPH replaces, and a Fixed-Duration leg of 31 minutes
DoubleModeValues == { <<DZero, Undefined>>, <<DNum(10), Some(DNum(31))>> }

DoubleRow(d, e, p, c) ==
  [ createEmptySegment(0, StrA, StrStartToA) EXCEPT
      !.splitDistKm = d, !.splitElevM = e, !.targetEPH = p,
      !.ep = DZero, !.targetTimeHours = DZero, !.targetTimeMins = DZero,
      !.totalDistKm = DZero, !.accuElevM = DZero, !.accuTimeHours = DZero,
      !.accuEPH = DZero, !.customDurationMins = c ]

DoubleStartRow == DoubleRow(DZero, DZero, DNum(10), Undefined)

\* Fixed-Intensity legs at the default EPH of 10 with every distance and
\* climb, and legs of 0.3 km in the other modes
DoubleLegs ==
  { DoubleRow(d, e, DNum(10), Undefined) :
      d \in DoubleDistValues, e \in DoubleElevValues }
  \cup
  { DoubleRow(DFromRatio(3, 10), e, mode[1], mode[2]) :
      e \in {DZero, DNum(50)}, mode \in DoubleModeValues }

InitDouble ==
  /\ startTime = DEFAULT_START_TIME
  /\ segments \in { WithIds(<<DoubleStartRow>> \o s) :
                      s \in UNION { [1..n -> DoubleLegs] : n \in 1..MaxDoubleLen } }
  /\ nextId = Len(segments)
  /\ nOps = 0
  /\ lastOp = [op |-> "mount", index |-> -1, field |-> "", value |-> <<>>,
               lenBefore |-> 0,
               fixedBefore |-> FALSE]

RecalculateDouble ==
  /\ nOps = 0
  /\ segments' = recalculateSegments64(segments, startTime)
  /\ nOps' = 1
  /\ lastOp' = Call("recalculateSegments", 0, "", <<>>)
  /\ UNCHANGED <<startTime, nextId>>

handleSaveDouble ==
  /\ nOps = 1
  /\ lastOp' = Call("handleSave", 0, "", Session64(generateId))
  /\ nextId' = nextId + 1
  /\ nOps' = 2
  /\ UNCHANGED <<startTime, segments>>

NextDouble == RecalculateDouble \/ handleSaveDouble

SpecDouble == InitDouble /\ [][NextDouble]_vars

(***************************************************************************)
(* Properties of the recalculation on doubles                              *)
(***************************************************************************)
\* the rows have been recalculated
Recalculated64 == nOps >= 1

\* C26, as stated: after every recalculation, for every segment in either
\* mode and at index 0, targetTimeMins == targetTimeHours * 60
C26_Original ==
  Recalculated64 =>
    \A i \in 1..Len(segments) :
      segments[i].targetTimeMins = DMul(segments[i].targetTimeHours, DNum(60))

\* C26: after every recalculation the two duration units are consistent in
\* the way the pass derives them: both are 0 at index 0; in Fixed-Intensity
\* mode targetTimeMins is the product targetTimeHours * 60; in Fixed-Duration
\* mode targetTimeMins is customDurationMins, targetTimeHours is the quotient
\* targetTimeMins / 60, and targetTimeHours * 60 is targetTimeMins up to the
\* rounding of the two operations
C26_UnitsConsistent ==
  Recalculated64 =>
    \A i \in 1..Len(segments) :
      LET seg == segments[i]
      IN  IF i = 1
          THEN seg.targetTimeHours = DZero /\ seg.targetTimeMins = DZero
          ELSE IF FixedDuration64(seg)
          THEN /\ seg.targetTimeMins = seg.customDurationMins[1]
               /\ seg.targetTimeHours = DDiv(seg.targetTimeMins, DNum(60))
               /\ DNear(seg.targetTimeMins, DMul(seg.targetTimeHours, DNum(60)))
          ELSE seg.targetTimeMins = DMul(seg.targetTimeHours, DNum(60))

\* a recalculated list with a Fixed-Duration leg of 31 minutes, whose hours
\* times 60 is not 31, and a Fixed-Intensity leg of non-zero duration
C26_Witness ==
  /\ Recalculated64
  /\ Len(segments) = 3
  /\ FixedDuration64(segments[2])
  /\ segments[2].targetTimeMins = DNum(31)
  /\ DMul(segments[2].targetTimeHours, DNum(60)) # DNum(31)
  /\ ~FixedDuration64(segments[3])
  /\ ~DIsZero(segments[3].targetTimeHours)
  /\ segments[3].targetTimeMins = DMul(segments[3].targetTimeHours, DNum(60))

\* the first leg is segment A of the scenario: 13.2 km, 1260 m of climb and a
\* target EPH of 10 in Fixed-Intensity mode, from a global start of "07:00"
ScenarioA ==
  /\ Recalculated64
  /\ startTime = T(7, 0)
  /\ segments[2].splitDistKm = DFromRatio(132, 10)
  /\ segments[2].splitElevM = DNum(1260)
  /\ segments[2].targetEPH = DNum(10)
  /\ ~FixedDuration64(segments[2])

\* C24, as stated: in the scenario the recalculation gives ep == 25.8,
\* targetTimeHours == 2.58, targetTimeMins == 154.8 and
\* endTime == addMinutes("07:00", 154.8)
C24_Original ==
  ScenarioA =>
    /\ segments[2].ep = DFromRatio(258, 10)
    /\ segments[2].targetTimeHours = DFromRatio(258, 100)
    /\ segments[2].targetTimeMins = DFromRatio(1548, 10)
    /\ segments[2].endTime = addMinutes64(T(7, 0), DFromRatio(1548, 10))

\* C24: in the scenario the recalculation gives ep = 13.2 + 1260 / 100,
\* targetTimeHours = ep / 10 and targetTimeMins = targetTimeHours * 60 as the
\* doubles these operations return, which are 25.8, 2.58 and 154.8 up to
\* rounding, and endTime is addMinutes("07:00", 154.8), which is "09:35"
C24_Scenario ==
  ScenarioA =>
    /\ segments[2].ep = DAdd(DFromRatio(132, 10), DDiv(DNum(1260), DNum(100)))
    /\ DNear(segments[2].ep, DFromRatio(258, 10))
    /\ segments[2].targetTimeHours = DDiv(segments[2].ep, DNum(10))
    /\ DNear(segments[2].targetTimeHours, DFromRatio(258, 100))
    /\ segments[2].targetTimeMins = DMul(segments[2].targetTimeHours, DNum(60))
    /\ DNear(segments[2].targetTimeMins, DFromRatio(1548, 10))
    /\ segments[2].startTime = T(7, 0)
    /\ segments[2].endTime = addMinutes64(T(7, 0), DFromRatio(1548, 10))
    /\ segments[2].endTime = T(9, 35)

\* the scenario recalculated: the three numbers are not the doubles of the
\* literals 25.8, 2.58 and 154.8, and the leg ends at "09:35"
C24_Witness ==
  /\ ScenarioA
  /\ segments[2].ep # DFromRatio(258, 10)
  /\ segments[2].targetTimeHours # DFromRatio(258, 100)
  /\ segments[2].targetTimeMins # DFromRatio(1548, 10)
  /\ segments[2].endTime = T(9, 35)

\* the sum of ep over the rows 0..i, added in the order of the list
SumEP64(s, i) == ReduceEP64(SubSeq(s, 1, i + 1), 1, DZero)

\* totalDistKm[i] + accuElevM[i] / 100
TotalsEP64(seg) == DAdd(seg.totalDistKm, DDiv(seg.accuElevM, DNum(100)))

\* C30, as stated: after every recalculation the sum of ep over segments
\* 0..i equals totalDistKm[i] + accuElevM[i] / 100, for i > 0 with
\* accuTimeHours[i] > 0 accuEPH[i] * accuTimeHours[i] equals that sum, and a
\* saved session has totalEP == totalDistance + totalElevation / 100
C30_Original ==
  /\ Recalculated64 =>
       \A i \in 0..(Len(segments) - 1) :
         LET seg == segments[i + 1]
         IN  /\ SumEP64(segments, i) = TotalsEP64(seg)
             /\ (i > 0 /\ DGt(seg.accuTimeHours, DZero)) =>
                  DMul(seg.accuEPH, seg.accuTimeHours) = SumEP64(segments, i)
  /\ lastOp.op = "handleSave" =>
       lastOp.value.totalEP =
         DAdd(lastOp.value.totalDistance,
              DDiv(lastOp.value.totalElevation, DNum(100)))

\* C30: for distances and climbs >= 0, after every recalculation the sum of
\* ep over segments 0..i equals totalDistKm[i] + accuElevM[i] / 100 up to
\* rounding, for i > 0 with accuTimeHours[i] > 0 accuEPH[i] is the quotient
\* (totalDistKm[i] + accuElevM[i] / 100) / accuTimeHours[i] and
\* accuEPH[i] * accuTimeHours[i] equals that sum up to rounding, and a saved
\* session has totalEP equal to totalDistance + totalElevation / 100 up to
\* rounding
C30_TotalsConsistent ==
  /\ Recalculated64 =>
       \A i \in 0..(Len(segments) - 1) :
         LET seg == segments[i + 1]
         IN  /\ DNear(SumEP64(segments, i), TotalsEP64(seg))
             /\ (i > 0 /\ DGt(seg.accuTimeHours, DZero)) =>
                  /\ seg.accuEPH = DDiv(TotalsEP64(seg), seg.accuTimeHours)
                  /\ DNear(DMul(seg.accuEPH, seg.accuTimeHours),
                           SumEP64(segments, i))
  /\ lastOp.op = "handleSave" =>
       /\ lastOp.value.totalEP = SumEP64(segments, Len(segments) - 1)
       /\ DNear(lastOp.value.totalEP,
                DAdd(lastOp.value.totalDistance,
                     DDiv(lastOp.value.totalElevation, DNum(100))))

\* a saved session of two legs, of 0 km with 7 m of climb and of 0.3 km with
\* 50 m of climb, whose totalEP is not the double of
\* totalDistance + totalElevation / 100
C30_Witness ==
  /\ lastOp.op = "handleSave"
  /\ Len(segments) = 3
  /\ segments[2].splitDistKm = DZero /\ segments[2].splitElevM = DNum(7)
  /\ segments[3].splitDistKm = DFromRatio(3, 10)
  /\ segments[3].splitElevM = DNum(50)
  /\ DGt(segments[3].accuTimeHours, DZero)
  /\ lastOp.value.totalDistance = DFromRatio(3, 10)
  /\ lastOp.value.totalElevation = DNum(57)
  /\ lastOp.value.totalEP #
       DAdd(lastOp.value.totalDistance,
            DDiv(lastOp.value.totalElevation, DNum(100)))

====
